---------------------------- MODULE Spec2Model ----------------------------
(***************************************************************************)
(* State-machine model of src/main.js: the Electron main process of the    *)
(* ASRS-VSS installer shell.  It supervises one Python backend child       *)
(* process (startBackend / startPythonProcess / testBackendConnection),    *)
(* coordinates shutdown (gracefulShutdown and the events that call it),    *)
(* enforces a single instance, and answers the renderer's requests.        *)
(*                                                                         *)
(* Node runs every handler to completion on one thread, so each handler    *)
(* (event listener, timer callback, exec callback) is one atomic action.   *)
(* Handlers are written as functions from the record of the program's      *)
(* globals to the record after the handler, so that a handler that calls   *)
(* another (gracefulShutdown, startBackend, app.quit) is the composition.  *)
(***************************************************************************)
EXTENDS Integers, Sequences, FiniteSets, TLC

(***************************************************************************)
(* Bounds of the model.                                                    *)
(***************************************************************************)
\* children the model lets the supervisor spawn in one run
MaxChildren == 3
\* in-flight validations / pending restart timers the counters may hold
MaxPending == 2
\* health requests that may be in flight at once
MaxHealthReqs == 1
\* gracefulShutdown runs that are told apart: the count stops growing there
MaxShutdowns == 2
\* renderer requests that may be in progress at once
MaxRequests == 1
\* the levels set-system-volume is called with: -LevelsBelowZero..MaxLevelArg
LevelsBelowZero == 10
MaxLevelArg == 150

(***************************************************************************)
(* Values of the program.                                                  *)
(***************************************************************************)
\* process.platform / os.platform(); "freebsd" stands for every platform the
\* switch statements do not name
Platforms == {"win32", "darwin", "linux", "freebsd"}
\* the platforms the switch statements of the request handlers name
SwitchPlatforms == {"win32", "darwin", "linux"}

\* possiblePaths (packaged build), by index; the third one is also the
\* development path path.join(__dirname, "../backend/app.py")
possiblePaths == <<1, 2, 3, 4>>
DevPath == possiblePaths[3]

\* the file systems the model starts from: which candidate paths exist
FsChoices == {{}, {3, 4}}

pythonCommands == <<"python", "python3", "py">>
altCommands == <<"python3", "py", "python">>
Commands == {pythonCommands[i] : i \in 1..Len(pythonCommands)}

\* the `code` a close handler receives when the child was ended by a signal
\* (JavaScript null): a value outside the 0..255 range of exit codes
NullCode == 256
\* the `code` of the close event that follows a failed spawn (-ENOENT)
EnoentCode == -2
\* exit code of the Python interpreter when its script cannot be opened
NoScriptCode == 2
\* exit codes a running backend may end with: clean, or killed (128+9)
ExitCodes == {0, 137}

HealthOutcomes == {"200", "non200", "error", "timeout"}

VARIABLES
    \* ---- environment (fixed during a run)
    platform,         \* process.platform
    isDev,            \* !app.isPackaged
    fsExists,         \* the candidate paths at which app.py exists
    available,        \* the runtime commands that exist on this machine
    killThrows,       \* the kill call of gracefulShutdown throws on this machine
    \* ---- application
    gotTheLock,       \* result of app.requestSingleInstanceLock()
    app,              \* "loading" | "loaded" | "ready" | "exited"
    quit,             \* "no" | "quitting" | "shutdown" (Electron's quit state)
    exitCode,         \* <<>> while running, <<c>> once the process has exited
    mainWindow,       \* "undefined" | "null" | "win"
    window,           \* the native window: "none" | "open" | "closing" | "closed"
    winShow,          \* "focused" | "blurred" | "minimized"
    logStream,        \* "null" | "open"
    \* ---- supervisor
    pythonProcess,    \* 0 (undefined/null) or the id of a child
    children,         \* id -> [st, cmd, sig, kills, killed]
    nextChild,        \* id the next spawn gets
    validations,      \* `<cmd> --version` runs whose callback is pending
    restartTimers,    \* pending 5 s restart timers
    probeTimers,      \* pending 3 s health-probe timers
    healthReqs,       \* health requests in flight
    quitTimers,       \* pending timers of app-quit / app-force-quit
    acks,             \* acknowledgment events sent to the renderer
    \* ---- history (not read by the program)
    shutdowns,        \* gracefulShutdown runs so far (up to MaxShutdowns)
    shutdownRaised,   \* a gracefulShutdown run threw
    restartAttempts,  \* startBackend calls made by restart timers
    restartableCloses,\* close events that scheduled a restart
    lastCode,         \* <<>> or <<code of the last close event handled>>
    healthLog,        \* "none" or the last health outcome logged
    probeLate,        \* that outcome arrived with the child gone or a stop requested
    shutdownLog,      \* the steps the last gracefulShutdown run performed, in order
    \* ---- renderer requests
    requests,         \* slot -> [op, st, result]
    \* ---- system volume
    mixer,            \* the OS mixer: [level (on the platform's scale), muted]
    volCmd,           \* the last set-system-volume: [set, level, arg]
    volOut            \* the last get-system-volume result, until the next request

envVars == <<platform, isDev, fsExists, available, killThrows>>
progVars == <<gotTheLock, app, quit, exitCode, mainWindow, window, winShow, logStream,
              pythonProcess, children, nextChild, validations, restartTimers,
              probeTimers, healthReqs, quitTimers, acks,
              shutdowns, shutdownRaised, restartAttempts, restartableCloses,
              lastCode, healthLog, probeLate, shutdownLog>>
volVars == <<mixer, volCmd, volOut>>
vars == <<envVars, progVars, requests, volVars>>

RequestSlots == 1..MaxRequests
NoRequest == [op |-> "", st |-> "idle", result |-> "none"]

NoVolCmd == [set |-> FALSE, level |-> 0, arg |-> 0]
NoVolOut == [got |-> FALSE, success |-> FALSE, volume |-> 0, nan |-> FALSE,
             isMuted |-> FALSE, shape |-> "none", muteRead |-> FALSE]

ChildIds == 1..MaxChildren
NoChild == [st |-> "none", cmd |-> "", sig |-> "none", kills |-> 0, killed |-> FALSE]

\* the globals, as one record
Cur ==
    [gotTheLock |-> gotTheLock, app |-> app, quit |-> quit, exitCode |-> exitCode,
     mainWindow |-> mainWindow, window |-> window, winShow |-> winShow,
     logStream |-> logStream, pythonProcess |-> pythonProcess, children |-> children,
     nextChild |-> nextChild, validations |-> validations,
     restartTimers |-> restartTimers, probeTimers |-> probeTimers,
     healthReqs |-> healthReqs, quitTimers |-> quitTimers, acks |-> acks,
     shutdowns |-> shutdowns, shutdownRaised |-> shutdownRaised,
     restartAttempts |-> restartAttempts, restartableCloses |-> restartableCloses,
     lastCode |-> lastCode, healthLog |-> healthLog, probeLate |-> probeLate,
     shutdownLog |-> shutdownLog]

\* the step that leaves the globals as the record s
Set(s) ==
    /\ gotTheLock' = s.gotTheLock /\ app' = s.app /\ quit' = s.quit
    /\ exitCode' = s.exitCode /\ mainWindow' = s.mainWindow /\ window' = s.window
    /\ winShow' = s.winShow /\ logStream' = s.logStream
    /\ pythonProcess' = s.pythonProcess /\ children' = s.children
    /\ nextChild' = s.nextChild /\ validations' = s.validations
    /\ restartTimers' = s.restartTimers /\ probeTimers' = s.probeTimers
    /\ healthReqs' = s.healthReqs /\ quitTimers' = s.quitTimers /\ acks' = s.acks
    /\ shutdowns' = s.shutdowns /\ shutdownRaised' = s.shutdownRaised
    /\ restartAttempts' = s.restartAttempts
    /\ restartableCloses' = s.restartableCloses
    /\ lastCode' = s.lastCode /\ healthLog' = s.healthLog /\ probeLate' = s.probeLate
    /\ shutdownLog' = s.shutdownLog
    /\ UNCHANGED <<envVars, volVars>>

\* a step of the supervisor or of the application: no request is touched
Apply(s) == Set(s) /\ UNCHANGED requests


(***************************************************************************)
(* createWindow and the window's state.                                    *)
(***************************************************************************)
\* mainWindow && !mainWindow.isDestroyed()
WindowAlive(s) == s.mainWindow = "win" /\ s.window # "closed"

\* BrowserWindow.getAllWindows().length > 0
HasWindow(s) == s.window \in {"open", "closing"}

createWindow(s) ==
    [s EXCEPT !.mainWindow = "win", !.window = "open", !.winShow = "focused"]

\* setupLogging: the write stream is created, or the try block fails and
\* logStream stays null
setupLogging(s, ok) ==
    IF ok THEN [s EXCEPT !.logStream = "open"] ELSE s

(***************************************************************************)
(* startBackend, its validation callback and startPythonProcess.           *)
(***************************************************************************)
\* possiblePaths.find((p) => fs.existsSync(p)): the first existing candidate,
\* 0 when there is none (undefined)
FindPath ==
    LET hits == {i \in 1..Len(possiblePaths) : possiblePaths[i] \in fsExists}
    IN IF hits = {} THEN 0
       ELSE possiblePaths[CHOOSE i \in hits : \A j \in hits : i <= j]

backendPath == IF isDev THEN DevPath ELSE FindPath

pythonCmd ==
    IF isDev THEN (IF platform = "win32" THEN "python" ELSE "python3")
    ELSE pythonCommands[1]

\* the command the `for (const cmd of altCommands)` loop starts: the loop
\* returns in its first iteration whose cmd differs from pythonCmd
FirstAlternative ==
    LET idx == {i \in 1..Len(altCommands) : altCommands[i] # pythonCmd}
    IN altCommands[CHOOSE i \in idx : \A j \in idx : i <= j]

\* spawn(cmd, [path]): the child runs when the command exists; otherwise the
\* handle is returned all the same and 'error' then 'close' follow
startPythonProcess(s, cmd, path) ==
    LET id == s.nextChild
        st == IF cmd \in available THEN "alive" ELSE "spawnfail"
    IN [s EXCEPT !.pythonProcess = id,
                 !.children[id] = [NoChild EXCEPT !.st = st, !.cmd = cmd],
                 !.nextChild = id + 1,
                 !.probeTimers = @ + 1]

\* (mutant) a startBackend that starts the validation twice
startBackendTwice(s) ==
    IF ~isDev /\ backendPath = 0
    THEN s
    ELSE [s EXCEPT !.validations = @ + 2]

\* startBackend up to the exec call: in a packaged build it returns when no
\* candidate path exists; otherwise `<pythonCmd> --version` is started
startBackend(s) ==
    IF ~isDev /\ backendPath = 0
    THEN s
    ELSE [s EXCEPT !.validations = @ + 1]

\* the callback of exec(`${pythonCmd} --version`)
validationCallback(s) ==
    LET s1 == [s EXCEPT !.validations = @ - 1]
    IN IF pythonCmd \notin available
       THEN IF ~isDev
            THEN startPythonProcess(s1, FirstAlternative, backendPath)
            ELSE s1
       ELSE startPythonProcess(s1, pythonCmd, backendPath)

\* (mutant) an 'error' listener that also starts the backend again
errorHandlerRestarts(s, c) ==
    startBackend([s EXCEPT !.pythonProcess = 0, !.children[c].st = "errored"])

\* pythonProcess.on("error")
errorHandler(s, c) ==
    [s EXCEPT !.pythonProcess = 0, !.children[c].st = "errored"]

\* (mutant) a close handler that schedules no restart
closeHandlerNoRestart(s, c, code) ==
    [s EXCEPT !.pythonProcess = 0, !.children[c].st = "closed",
              !.lastCode = <<code>>]

\* (mutant) a close handler that restarts after a clean exit too
closeHandlerAnyCode(s, c, code) ==
    LET s1 == [s EXCEPT !.pythonProcess = 0, !.children[c].st = "closed",
                        !.lastCode = <<code>>]
    IN IF WindowAlive(s1)
       THEN [s1 EXCEPT !.restartTimers = @ + 1, !.restartableCloses = @ + 1]
       ELSE s1

\* (mutant) a close handler that does not look at the window
closeHandlerAnyWindow(s, c, code) ==
    LET s1 == [s EXCEPT !.pythonProcess = 0, !.children[c].st = "closed",
                        !.lastCode = <<code>>]
    IN IF code # 0
       THEN [s1 EXCEPT !.restartTimers = @ + 1, !.restartableCloses = @ + 1]
       ELSE s1

\* pythonProcess.on("close")
closeHandler(s, c, code) ==
    LET s1 == [s EXCEPT !.pythonProcess = 0, !.children[c].st = "closed",
                        !.lastCode = <<code>>]
    IN IF code # 0 /\ WindowAlive(s1)
       THEN [s1 EXCEPT !.restartTimers = @ + 1, !.restartableCloses = @ + 1]
       ELSE s1

\* (mutant) a restart timer that gives up after the first restart
restartTimerCallbackCapped(s) ==
    LET s1 == [s EXCEPT !.restartTimers = @ - 1]
    IN IF s1.pythonProcess = 0 /\ s1.restartAttempts < 1
       THEN startBackend([s1 EXCEPT !.restartAttempts = @ + 1])
       ELSE s1

\* the callback of the 5 s restart timer
restartTimerCallback(s) ==
    LET s1 == [s EXCEPT !.restartTimers = @ - 1]
    IN IF s1.pythonProcess = 0
       THEN startBackend([s1 EXCEPT !.restartAttempts = @ + 1])
       ELSE s1

(***************************************************************************)
(* testBackendConnection: the request and its three listeners only log.    *)
(***************************************************************************)
testBackendConnection(s) ==
    [s EXCEPT !.probeTimers = @ - 1, !.healthReqs = @ + 1]

\* (mutant) a health check that schedules a restart when it fails
healthResultRestarts(s, outcome) ==
    [s EXCEPT !.healthReqs = @ - 1, !.healthLog = outcome,
              !.probeLate = (s.pythonProcess = 0 \/ s.shutdowns > 0),
              !.restartTimers = IF outcome = "200" THEN @ ELSE @ + 1]

healthResult(s, outcome) ==
    [s EXCEPT !.healthReqs = @ - 1, !.healthLog = outcome,
              !.probeLate = (s.pythonProcess = 0 \/ s.shutdowns > 0)]

(***************************************************************************)
(* gracefulShutdown.                                                       *)
(***************************************************************************)
\* the kill inside the try block: taskkill /pid <pid> /f /t on win32,
\* pythonProcess.kill("SIGTERM") elsewhere, which sets .killed when the
\* signal was sent to a live child; the call may throw (spawn or kill
\* refused by the OS), and then nothing was sent
killChild(ch) ==
    IF killThrows
    THEN [ch EXCEPT !.sig = "raised", !.kills = @ + 1]
    ELSE IF platform = "win32"
    THEN [ch EXCEPT !.sig = "taskkill", !.kills = @ + 1]
    ELSE [ch EXCEPT !.sig = "SIGTERM", !.kills = @ + 1,
                    !.killed = (ch.st = "alive")]

\* logStream.end(): a TypeError when logStream is null
endLogStream(s) ==
    IF s.logStream = "null" THEN [s EXCEPT !.shutdownRaised = TRUE]
    ELSE [s EXCEPT !.logStream = "null"]

\* mainWindow.close(): throws on a missing or destroyed window; otherwise the
\* close is requested and 'closed' follows in a later turn of the loop (a
\* 'closed' emitted inside the call finds the handle and the stream cleared
\* already and ends in the same state as WindowClosed right after this step)
closeMainWindow(s) ==
    IF ~WindowAlive(s) THEN [s EXCEPT !.shutdownRaised = TRUE]
    ELSE [s EXCEPT !.window = "closing"]

\* (mutant) a gracefulShutdown without try/catch around the kill: when the
\* kill throws, the run ends there
gracefulShutdownNoCatch(s) ==
    LET s0 == [s EXCEPT !.shutdowns = IF @ < MaxShutdowns THEN @ + 1 ELSE @,
                        !.shutdownLog = <<>>]
        s1 == IF s0.logStream # "null"
              THEN [endLogStream(s0) EXCEPT !.shutdownLog = Append(@, "logEnd")]
              ELSE s0
        pp == s1.pythonProcess
        kill == pp # 0 /\ ~s1.children[pp].killed
        s2 == IF kill
              THEN [s1 EXCEPT !.children[pp] = killChild(@),
                              !.pythonProcess = IF killThrows THEN @ ELSE 0,
                              !.shutdownLog =
                                  @ \o (IF killThrows THEN <<"killRaised">>
                                        ELSE <<"signal", "handleCleared">>)]
              ELSE s1
    IN IF kill /\ killThrows THEN [s2 EXCEPT !.shutdownRaised = TRUE]
       ELSE IF WindowAlive(s2)
       THEN [closeMainWindow(s2) EXCEPT !.mainWindow = "null",
                                        !.shutdownLog = Append(@, "windowClose")]
       ELSE s2

\* (mutant) a gracefulShutdown that leaves the handle in pythonProcess
gracefulShutdownKeepsHandle(s) ==
    LET s0 == [s EXCEPT !.shutdowns = IF @ < MaxShutdowns THEN @ + 1 ELSE @]
        s1 == IF s0.logStream # "null" THEN endLogStream(s0) ELSE s0
        pp == s1.pythonProcess
        s2 == IF pp # 0 /\ ~s1.children[pp].killed
              THEN [s1 EXCEPT !.children[pp] = killChild(@)]
              ELSE s1
    IN IF WindowAlive(s2)
       THEN [closeMainWindow(s2) EXCEPT !.mainWindow = "null"]
       ELSE s2

gracefulShutdown(s) ==
    LET s0 == [s EXCEPT !.shutdowns = IF @ < MaxShutdowns THEN @ + 1 ELSE @,
                        !.shutdownLog = <<>>]
        s1 == IF s0.logStream # "null"
              THEN [endLogStream(s0) EXCEPT !.shutdownLog = Append(@, "logEnd")]
              ELSE s0
        pp == s1.pythonProcess
        s2 == IF pp # 0 /\ ~s1.children[pp].killed
              THEN [s1 EXCEPT !.children[pp] = killChild(@), !.pythonProcess = 0,
                              !.shutdownLog =
                                  @ \o <<IF killThrows THEN "killRaised" ELSE "signal",
                                         "handleCleared">>]
              ELSE s1
        s3 == IF WindowAlive(s2)
              THEN [closeMainWindow(s2) EXCEPT !.mainWindow = "null",
                                               !.shutdownLog = Append(@, "windowClose")]
              ELSE s2
    IN IF s1.shutdownRaised THEN s1
       ELSE IF s3.shutdownRaised THEN [s3 EXCEPT !.mainWindow = s2.mainWindow]
       ELSE s3

(***************************************************************************)
(* Electron's quit sequence.                                               *)
(***************************************************************************)
\* app.quit(): nothing when a quit is under way; otherwise 'before-quit' is
\* emitted (its handler runs gracefulShutdown), then the windows are asked
\* to close, and with no window left the application shuts down
appQuit(s) ==
    IF s.quit # "no"
    THEN s
    ELSE LET s1 == gracefulShutdown(s)
         IN IF HasWindow(s1)
            THEN [s1 EXCEPT !.quit = "quitting", !.window = "closing"]
            ELSE [s1 EXCEPT !.quit = "shutdown"]

\* process.exit(code): the pending timers and callbacks go with the process
processExit(s, code) ==
    [s EXCEPT !.app = "exited", !.exitCode = <<code>>, !.validations = 0,
              !.restartTimers = 0, !.probeTimers = 0, !.healthReqs = 0,
              !.quitTimers = {}]

\* (mutant) an uncaughtException handler that only exits
uncaughtExceptionExitsOnly(s) == processExit(s, 1)

\* process.on("uncaughtException"): gracefulShutdown(); process.exit(1)
uncaughtException(s) == processExit(gracefulShutdown(s), 1)

\* mainWindow.on("closed") followed, as the last window is gone, by
\* 'window-all-closed' (not emitted while a quit is under way: Electron then
\* shuts down directly)
windowClosed(s) ==
    LET s1 == [s EXCEPT !.window = "closed", !.mainWindow = "null"]
        s2 == IF platform # "darwin" THEN gracefulShutdown(s1) ELSE s1
    IN IF s2.quit = "quitting"
       THEN [s2 EXCEPT !.quit = "shutdown"]
       ELSE appQuit(gracefulShutdown(s2))

\* app.on("second-instance")
secondInstance(s) ==
    IF s.mainWindow = "win" THEN [s EXCEPT !.winShow = "focused"] ELSE s

(***************************************************************************)
(* The initial state: the process has started and main.js has not run yet. *)
(***************************************************************************)
MachineInit ==
    /\ platform \in Platforms
    /\ isDev \in BOOLEAN
    /\ fsExists \in FsChoices
    /\ available \in SUBSET Commands
    /\ killThrows \in BOOLEAN
    /\ gotTheLock = TRUE
    /\ app = "loading"
    /\ quit = "no"
    /\ exitCode = <<>>
    /\ mainWindow = "undefined"
    /\ window = "none"
    /\ winShow = "blurred"
    /\ logStream = "null"
    /\ pythonProcess = 0
    /\ children = [c \in ChildIds |-> NoChild]
    /\ nextChild = 1
    /\ validations = 0
    /\ restartTimers = 0
    /\ probeTimers = 0
    /\ healthReqs = 0
    /\ quitTimers = {}
    /\ acks = {}
    /\ shutdowns = 0
    /\ shutdownRaised = FALSE
    /\ restartAttempts = 0
    /\ restartableCloses = 0
    /\ lastCode = <<>>
    /\ healthLog = "none"
    /\ probeLate = FALSE
    /\ shutdownLog = <<>>
    /\ requests = [r \in RequestSlots |-> NoRequest]
    /\ mixer = [level |-> 0, muted |-> FALSE]
    /\ volCmd = NoVolCmd
    /\ volOut = NoVolOut

\* the machines on which the kill call of gracefulShutdown does not throw
Init == MachineInit /\ killThrows = FALSE

\* the event loop delivers callbacks: the application is ready and Electron
\* has not shut it down.  After the shutdown the main loop ends as soon as
\* it is idle and pending callbacks are not waited for.  An instance that
\* called app.quit() while loading (no lock) is shut down already when
\* 'ready' is emitted: its ready handler runs, its later callbacks do not.
Running == app = "ready" /\ quit # "shutdown"

\* a stop has been requested: gracefulShutdown has run
stopRequested == shutdowns > 0

(***************************************************************************)
(* The actions: one per handler.                                           *)
(***************************************************************************)
\* main.js runs: the handlers are registered, requestSingleInstanceLock()
\* returns lock, and without the lock app.quit() is called
LoadMain ==
    /\ app = "loading"
    /\ \E lock \in BOOLEAN :
          LET s1 == [Cur EXCEPT !.app = "loaded", !.gotTheLock = lock]
          IN Apply(IF lock THEN s1 ELSE appQuit(s1))

\* app.whenReady().then(...): registered whatever the lock says
AppReady ==
    /\ app = "loaded"
    /\ \E logOk \in BOOLEAN :
          Apply(startBackend(createWindow(
                    setupLogging([Cur EXCEPT !.app = "ready"], logOk))))

\* the callback of exec(`${pythonCmd} --version`)
ValidationDone ==
    /\ Running
    /\ validations > 0
    /\ nextChild <= MaxChildren
    /\ Apply(validationCallback(Cur))

\* 'error' of a child whose spawn failed
ChildError ==
    /\ Running
    /\ \E c \in ChildIds :
          /\ children[c].st = "spawnfail"
          /\ Apply(errorHandler(Cur, c))

\* 'close' of a child: after a failed spawn, or when the process has ended
ChildClose ==
    /\ Running
    /\ restartTimers < MaxPending
    /\ \E c \in ChildIds :
          \E code \in ExitCodes \cup {NullCode, EnoentCode, NoScriptCode} :
             /\ \/ children[c].st = "errored" /\ code = EnoentCode
                \/ /\ children[c].st = "alive"
                   /\ IF backendPath \notin fsExists THEN code = NoScriptCode
                      ELSE IF children[c].sig = "SIGTERM" THEN code = NullCode
                      ELSE code \in ExitCodes
             /\ Apply(closeHandler(Cur, c, code))

\* the 5 s restart timer expires; a 3 s probe timer set before it has
\* expired by then
RestartTimer ==
    /\ Running
    /\ restartTimers > 0
    /\ probeTimers = 0
    /\ validations < MaxPending
    /\ Apply(restartTimerCallback(Cur))

\* the 3 s timer of startPythonProcess expires
ProbeTimer ==
    /\ Running
    /\ probeTimers > 0
    /\ healthReqs < MaxHealthReqs
    /\ Apply(testBackendConnection(Cur))

\* the response, 'error' or 'timeout' listener of the health request
ProbeResult ==
    /\ Running
    /\ healthReqs > 0
    /\ \E outcome \in HealthOutcomes : Apply(healthResult(Cur, outcome))

\* the user minimizes, blurs or focuses the window
WindowShow ==
    /\ Running
    /\ window = "open"
    /\ \E v \in {"focused", "blurred", "minimized"} :
          /\ v # winShow
          /\ Apply([Cur EXCEPT !.winShow = v])

\* another launch was attempted: 'second-instance' in the instance that
\* holds the lock
SecondInstance ==
    /\ Running
    /\ gotTheLock
    /\ winShow # "focused"
    /\ Apply(secondInstance(Cur))

\* the window is closed: by the user, or a requested close completes
WindowClosed ==
    /\ Running
    /\ HasWindow(Cur)
    /\ Apply(windowClosed(Cur))

\* a quit is requested from outside the renderer (menu, dock, OS session)
QuitRequested ==
    /\ Running
    /\ quit = "no"
    /\ Apply(appQuit(Cur))

\* ipcMain.on("app-quit")
AppQuitSignal ==
    /\ Running
    /\ HasWindow(Cur)
    /\ "quit500" \notin quitTimers
    /\ Apply([Cur EXCEPT !.acks = @ \cup {"app-quit-acknowledged"},
                         !.quitTimers = @ \cup {"quit500"}])

\* the 500 ms timer of app-quit
AppQuitTimer ==
    /\ Running
    /\ "quit500" \in quitTimers
    /\ LET s1 == appQuit(gracefulShutdown(Cur))
       IN Apply([s1 EXCEPT !.quitTimers = (@ \ {"quit500"}) \cup {"exit1000"}])

\* the 1000 ms timer set by the app-quit timer
ForceExitTimer ==
    /\ Running
    /\ "exit1000" \in quitTimers
    /\ Apply(processExit([Cur EXCEPT !.quitTimers = @ \ {"exit1000"}], 0))

\* ipcMain.on("app-force-quit")
AppForceQuitSignal ==
    /\ Running
    /\ HasWindow(Cur)
    /\ "exit100" \notin quitTimers
    /\ Apply([gracefulShutdown(Cur) EXCEPT !.quitTimers = @ \cup {"exit100"}])

\* the 100 ms timer of app-force-quit
ForceQuitTimer ==
    /\ Running
    /\ "exit100" \in quitTimers
    /\ Apply(processExit([Cur EXCEPT !.quitTimers = @ \ {"exit100"}], 0))

\* process.on("uncaughtException")
UncaughtException ==
    /\ app \in {"loaded", "ready"}
    /\ Apply(uncaughtException(Cur))

\* Electron ends the process once the quit sequence has shut it down
ProcessExit ==
    /\ app \in {"loaded", "ready"}
    /\ quit = "shutdown"
    /\ Apply(processExit(Cur, 0))

Next ==
    \/ LoadMain
    \/ AppReady
    \/ ValidationDone
    \/ ChildError
    \/ ChildClose
    \/ RestartTimer
    \/ ProbeTimer
    \/ ProbeResult
    \/ WindowClosed
    \/ QuitRequested
    \/ AppQuitSignal
    \/ AppQuitTimer
    \/ ForceExitTimer
    \/ AppForceQuitSignal
    \/ ForceQuitTimer
    \/ UncaughtException
    \/ ProcessExit

Spec == Init /\ [][Next]_vars

\* The supervisor alone, with the one stop the user always has (closing the
\* window).  The event loop delivers what is due: an expired timer runs its
\* callback, a finished `--version` run and a finished health request run
\* theirs.
SupervisorNext ==
    \/ LoadMain
    \/ AppReady
    \/ ValidationDone
    \/ ChildError
    \/ ChildClose
    \/ RestartTimer
    \/ ProbeTimer
    \/ ProbeResult
    \/ WindowClosed
    \/ ProcessExit

LiveSpec ==
    /\ Init /\ [][SupervisorNext]_vars
    /\ WF_vars(RestartTimer)
    /\ WF_vars(ValidationDone)
    /\ WF_vars(ProbeTimer)
    /\ WF_vars(ProbeResult)

(***************************************************************************)
(* The shutdown paths: every caller of gracefulShutdown, on every machine, *)
(* those where the kill call throws included.                              *)
(***************************************************************************)
ShutdownNext ==
    \/ LoadMain
    \/ AppReady
    \/ ValidationDone
    \/ ChildError
    \/ ChildClose
    \/ WindowClosed
    \/ QuitRequested
    \/ AppQuitSignal
    \/ AppQuitTimer
    \/ ForceExitTimer
    \/ AppForceQuitSignal
    \/ ForceQuitTimer
    \/ UncaughtException
    \/ ProcessExit

ShutdownSpec == MachineInit /\ [][ShutdownNext]_vars

(***************************************************************************)
(* The single-instance lock: launches, the window and 'second-instance'.   *)
(***************************************************************************)
InstanceNext ==
    \/ LoadMain
    \/ AppReady
    \/ WindowShow
    \/ SecondInstance
    \/ WindowClosed
    \/ QuitRequested
    \/ ProcessExit

InstanceSpec == Init /\ [][InstanceNext]_vars

(***************************************************************************)
(* The request handlers (ipcMain.handle).  A request occupies a slot: its  *)
(* handler runs to its first asynchronous call, and the callback of that   *)
(* call settles the promise the renderer awaits.                           *)
(***************************************************************************)
VolumeOps == {"get-system-volume", "set-system-volume", "toggle-mute"}
WifiOps == {"scan-wifi", "connect-wifi", "disconnect-wifi",
            "get-current-wifi-connection"}
PowerOps == {"app-shutdown", "app-restart", "app-sleep"}
\* the handlers that await a collaborator inside try/catch
AwaitOps == WifiOps \cup {"open-external-link"}
Ops == VolumeOps \cup AwaitOps \cup PowerOps
          \cup {"get-network-interfaces", "app-get-status"}

\* how an external command or an awaited call ends: "ok"; "error" (the exec
\* error argument, a non-zero exit, a rejected await); "stderr" (success
\* with output on stderr); "spawnError" (the program could not be started)
CommandOutcomes == {"ok", "error", "stderr", "spawnError"}

\* the timeout option the handlers pass to exec and spawn: none is passed,
\* which is Node's default 0, no timeout
ExecTimeout == 0

\* a command that never completes of itself stays pending ("hung") when no
\* timeout is set; with a timeout Node kills it and its callback runs with
\* an error, as for any command that completes ("running")
Started(hangs) == IF hangs /\ ExecTimeout = 0 THEN "hung" ELSE "running"

\* the part of a handler that runs when the request arrives; `hangs` says
\* whether the command it starts never completes, `syncOk` whether the
\* synchronous body of get-network-interfaces runs without throwing
requestHandler(op, hangs, syncOk) ==
    LET started == [op |-> op, st |-> Started(hangs), result |-> "pending"]
        done(r) == [op |-> op, st |-> "done", result |-> r]
    IN CASE op \in VolumeOps ->
              IF platform \in SwitchPlatforms THEN started ELSE done("failure")
         [] op \in PowerOps ->
              IF platform \in SwitchPlatforms THEN started ELSE done("rejected")
         [] op \in AwaitOps -> started
         [] op = "get-network-interfaces" ->
              IF syncOk THEN done("success") ELSE done("failure")
         [] OTHER -> done("status")

\* the outcomes the pending call of request r can have
OutcomesOf(r) ==
    IF r.op \in AwaitOps THEN {"ok", "error"}
    ELSE IF r.op = "get-system-volume" /\ platform = "win32" THEN CommandOutcomes
    ELSE {"ok", "error", "stderr"}

\* the callback of the pending call: the request as it leaves it.  The
\* win32 get-system-volume child has no 'error' listener: a spawn error is
\* thrown as an uncaught exception and the request is never settled ("lost").
requestCallback(r, outcome, hangs) ==
    LET done(res) == [r EXCEPT !.st = "done", !.result = res]
    IN CASE r.op = "get-system-volume" /\ platform = "win32" ->
              IF outcome = "spawnError" THEN done("lost")
              ELSE IF outcome = "error" THEN done("failure")
              ELSE done("success")
         [] r.op = "get-system-volume" /\ platform = "linux" ->
              IF r.st = "mute" THEN done("success")
              ELSE IF outcome = "ok"
                   THEN [r EXCEPT !.st = IF Started(hangs) = "hung" THEN "muteHung"
                                           ELSE "mute"]
                   ELSE done("failure")
         [] r.op \in VolumeOps ->
              IF outcome = "ok" THEN done("success") ELSE done("failure")
         [] r.op \in PowerOps ->
              IF outcome = "error" THEN done("rejected") ELSE done("true")
         [] OTHER ->
              IF outcome = "ok" THEN done("success") ELSE done("failure")

\* ipcMain.handle(op): a request arrives from the renderer
Request ==
    /\ Running
    /\ HasWindow(Cur)
    /\ \E slot \in RequestSlots, op \in Ops, hangs \in BOOLEAN, syncOk \in BOOLEAN :
          /\ requests[slot].st \in {"idle", "done"}
          /\ requests' = [requests EXCEPT ![slot] = requestHandler(op, hangs, syncOk)]
          /\ Set(Cur)

\* the callback of the command or the await of a request
RequestCallback ==
    /\ Running
    /\ \E slot \in RequestSlots, hangs \in BOOLEAN :
          /\ requests[slot].st \in {"running", "mute"}
          /\ \E outcome \in OutcomesOf(requests[slot]) :
                LET r == requestCallback(requests[slot], outcome, hangs)
                IN /\ requests' = [requests EXCEPT ![slot] = r]
                   /\ IF r.result = "lost"
                      THEN Set(uncaughtException(Cur))
                      ELSE Set(Cur)

FacadeNext ==
    \/ LoadMain
    \/ AppReady
    \/ Request
    \/ RequestCallback
    \/ WindowClosed
    \/ ProcessExit

FacadeSpec == Init /\ [][FacadeNext]_vars

\* the callbacks of commands that complete are delivered, and a process
\* that Electron has shut down exits
FacadeFair == FacadeSpec /\ WF_vars(RequestCallback) /\ WF_vars(ProcessExit)

(***************************************************************************)
(* The system volume: set-system-volume, get-system-volume, toggle-mute    *)
(* and the parsers of get-system-volume, on the commands' success paths    *)
(* (their failure paths are requestHandler and requestCallback above).     *)
(***************************************************************************)
\* Math.round(n / d) for d > 0: the nearest integer, a half rounded up
Round(n, d) == (2 * n + d) \div (2 * d)

\* the top of the platform's volume scale: nircmd's 0..65535, percent elsewhere
ScaleMax(p) == IF p = "win32" THEN 65535 ELSE 100

\* the levels set-system-volume is called with
LevelArgs == (0 - LevelsBelowZero)..MaxLevelArg

\* levels the user sets outside the application, on the platform's scale;
\* PulseAudio lets a sink go above 100%
OutsideLevels(p) ==
    CASE p = "win32" -> {0, 1, 327, 32768, 65535}
      [] p = "linux" -> {0, 50, 100, 120, 153}
      [] OTHER -> {0, 50, 100}

\* the number set-system-volume puts in the platform command for newVolume
volumeArg(p, newVolume) ==
    IF p = "win32" THEN Round(newVolume * 65535, 100) ELSE newVolume

\* the level the mixer has after the command: the argument when it is on
\* the scale; what the OS makes of any other argument is not the program's
OsLevels(p, arg) ==
    IF arg \in 0..ScaleMax(p) THEN {arg} ELSE OutsideLevels(p)

\* what the command of get-system-volume prints: the format the parser
\* expects, or anything else (empty, another wording, "missing value")
OutputShapes == {"expected", "other"}

\* (mutant) a parser that truncates where the code rounds
parseVolumeTruncating(p, m, shape, muteRead) ==
    [got |-> TRUE, success |-> TRUE,
     volume |-> IF shape # "expected" THEN 0
                ELSE IF p = "win32" THEN (m.level * 100) \div 65535 ELSE m.level,
     nan |-> (p = "win32" /\ shape # "expected"),
     isMuted |-> (p # "win32" /\ shape = "expected" /\ muteRead /\ m.muted),
     shape |-> shape, muteRead |-> muteRead]

\* the parser of get-system-volume, for exit code 0 and empty stderr;
\* muteRead: on linux, the second command printed the Mute: line
parseVolume(p, m, shape, muteRead) ==
    LET out(vol, isNan, muted) ==
            [got |-> TRUE, success |-> TRUE, volume |-> vol, nan |-> isNan,
             isMuted |-> muted, shape |-> shape, muteRead |-> muteRead]
    IN CASE p = "win32" ->
              \* parts.length >= 1 always; parseInt of other text is NaN
              IF shape = "expected" THEN out(Round(m.level * 100, 65535), FALSE, FALSE)
              ELSE out(0, TRUE, FALSE)
         [] p = "darwin" ->
              IF shape = "expected" THEN out(m.level, FALSE, m.muted)
              ELSE out(0, FALSE, FALSE)
         [] OTHER ->
              out(IF shape = "expected" THEN m.level ELSE 0, FALSE,
                  muteRead /\ m.muted)

\* ipcMain.handle("set-system-volume"), the command succeeding
SetSystemVolume ==
    /\ Running /\ HasWindow(Cur)
    /\ platform \in SwitchPlatforms
    /\ \E v \in LevelArgs :
          LET arg == volumeArg(platform, v)
          IN /\ volCmd' = [set |-> TRUE, level |-> v, arg |-> arg]
             /\ \E l \in OsLevels(platform, arg) : mixer' = [mixer EXCEPT !.level = l]
    /\ volOut' = NoVolOut
    /\ UNCHANGED <<envVars, progVars, requests>>

\* ipcMain.handle("toggle-mute"), the command succeeding
ToggleMute ==
    /\ Running /\ HasWindow(Cur)
    /\ platform \in SwitchPlatforms
    /\ mixer' = [mixer EXCEPT !.muted = ~@]
    /\ volOut' = NoVolOut
    /\ UNCHANGED <<envVars, progVars, requests, volCmd>>

\* the user changes the volume outside the application
OutsideVolumeChange ==
    /\ Running
    /\ \E l \in OutsideLevels(platform) :
          /\ l # mixer.level
          /\ mixer' = [mixer EXCEPT !.level = l]
    /\ volCmd' = NoVolCmd
    /\ volOut' = NoVolOut
    /\ UNCHANGED <<envVars, progVars, requests>>

\* ipcMain.handle("get-system-volume"), the command succeeding
GetSystemVolume ==
    /\ Running /\ HasWindow(Cur)
    /\ platform \in SwitchPlatforms
    /\ \E shape \in OutputShapes, muteRead \in BOOLEAN :
          /\ platform # "linux" => muteRead
          /\ volOut' = parseVolume(platform, mixer, shape, muteRead)
    /\ UNCHANGED <<envVars, progVars, requests, mixer, volCmd>>

VolumeNext ==
    \/ LoadMain
    \/ AppReady
    \/ SetSystemVolume
    \/ ToggleMute
    \/ OutsideVolumeChange
    \/ GetSystemVolume

\* the volume handlers on one machine without a backend
VolumeInit == Init /\ isDev = FALSE /\ fsExists = {} /\ available = {}

VolumeSpec == VolumeInit /\ [][VolumeNext]_vars

(***************************************************************************)
(* Properties of the supervisor.                                           *)
(***************************************************************************)
Alive == {c \in ChildIds : children[c].st = "alive"}

\* C1: once a stop has been requested (gracefulShutdown has run), no child
\* is spawned any more: neither a restart timer that was pending nor a
\* validation that was in flight when the stop arrived leads to a spawn.
C1_NoSpawnAfterStop ==
    [][stopRequested => nextChild' = nextChild /\ Alive' \subseteq Alive]_vars

\* C2: at most one child is alive; a replacement is spawned only after the
\* close event of the previous child has been handled; and the restarts are
\* one per restartable close, each made by the expiry of its own timer:
\* the attempts made plus the timers pending are the closes that scheduled one.
C2_OneChildSerialRestarts ==
    /\ Cardinality(Alive) <= 1
    /\ \A c \in ChildIds : c + 1 < nextChild => children[c].st = "closed"
    /\ app # "exited" => restartAttempts + restartTimers = restartableCloses

\* C2 witness: two non-zero exits in a row, window alive and no stop, were
\* followed by two restarts and the third child runs.
C2_Witness ==
    /\ ~stopRequested /\ WindowAlive(Cur)
    /\ restartableCloses = 2 /\ restartAttempts = 2
    /\ children[1].st = "closed" /\ children[2].st = "closed"
    /\ children[3].st = "alive"

\* C3: however often gracefulShutdown runs, each child gets at most one
\* kill attempt and no run raises.
C3_ShutdownIdempotent ==
    /\ \A c \in ChildIds : children[c].kills <= 1
    /\ ~shutdownRaised

\* C3 witness: gracefulShutdown has run at least twice and the child that
\* was running at the first run was signalled once.
C3_Witness ==
    /\ shutdowns >= 2
    /\ \E c \in ChildIds : children[c].kills = 1 /\ children[c].st = "alive"

\* the startup sequence can succeed: the entry point resolves and the
\* runtime command startBackend validates exists
CanStart == (isDev \/ FindPath # 0) /\ pythonCmd \in available

\* the child spawned last has closed with code 137 (killed) and no stop has
\* been requested: the window is alive, no other child is
LastChildKilled ==
    /\ app = "ready" /\ ~stopRequested /\ WindowAlive(Cur)
    /\ nextChild > 1 /\ children[nextChild - 1].st = "closed"
    /\ lastCode = <<137>>

\* C4: when the child has closed with a non-zero code (137) with the
\* window alive and no stop requested, the restart timer eventually runs
\* startBackend again (its validation is started), and when the entry point
\* resolves and the runtime validates a new child is running, unless a stop
\* or an exit comes first.
C4_RestartAfterFailure ==
    /\ (LastChildKilled /\ restartTimers > 0)
          ~> (stopRequested \/ app = "exited" \/ validations > 0)
    /\ (LastChildKilled /\ CanStart /\ nextChild <= MaxChildren)
          ~> (stopRequested \/ app = "exited" \/ Alive # {})

\* C4 witness: the first child was killed (137) with the window alive and
\* no stop requested, the restart ran, and a second child is running.
C4_Witness ==
    /\ ~stopRequested /\ WindowAlive(Cur) /\ CanStart
    /\ children[1].st = "closed" /\ restartableCloses = 1 /\ restartAttempts = 1
    /\ children[2].st = "alive" /\ pythonProcess = 2 /\ lastCode = <<137>>

\* C5: when app.py exists at none of the candidate locations, no child is
\* spawned and no retry is scheduled, in development and packaged mode.
C5_NotFoundIsTerminal ==
    fsExists = {} => nextChild = 1 /\ restartTimers = 0

\* C6: when every candidate runtime command is missing, the supervisor ends
\* in a terminal failure: no child handle is held once the failures have
\* been reported and no further start attempt is made.
C6_RuntimeMissingIsTerminal ==
    available = {} => restartTimers = 0 /\ restartAttempts = 0

\* what a health probe must leave alone: the handle, the children, the
\* start pipeline, the timers, the window and the quit sequence
supervised ==
    <<pythonProcess, children, nextChild, validations, restartTimers,
      restartAttempts, mainWindow, window, quit, app, logStream, shutdowns,
      quitTimers>>

\* C7: a step of the health probe (testBackendConnection sending the
\* request, or a listener receiving status 200, another status, an error
\* or a timeout) leaves the child handle, the children, the restart timers
\* and the window unchanged, also when the child has gone or a stop was
\* requested before.
C7_ProbeAdvisory ==
    [][(healthReqs' # healthReqs /\ app' = app) => UNCHANGED supervised]_vars

\* C7 witness: a probe timed out after the stop was requested and the child
\* had been released, and the application still runs.
C7_Witness ==
    /\ healthLog = "timeout" /\ probeLate /\ healthReqs = 0
    /\ stopRequested /\ pythonProcess = 0 /\ app = "ready"

\* the child spawned last has closed with a non-zero code, the window is
\* alive and no stop has been requested
LastChildFailed ==
    /\ app = "ready" /\ ~stopRequested /\ WindowAlive(Cur)
    /\ nextChild > 1 /\ children[nextChild - 1].st = "closed"
    /\ lastCode # <<0>>

\* C21: there is no retry cap.  While every child exits non-zero with the
\* window alive and no stop requested, the supervisor is never in a
\* terminal failed state (a restart timer or a validation is pending,
\* whatever the number of attempts made), every expiry of a restart timer
\* is one more start attempt, and every pending timer does expire.
C21_NoRetryCap ==
    /\ [](LastChildFailed => restartTimers + validations > 0)
    /\ [][(restartTimers' < restartTimers /\ app' = app)
             => restartAttempts' = restartAttempts + 1]_vars
    /\ (LastChildFailed /\ restartTimers > 0)
          ~> (stopRequested \/ app = "exited" \/ restartTimers = 0)

\* C21 witness: three children in a row have exited non-zero with the
\* window alive and no stop; two restarts were made and the timer of the
\* third is pending.
C21_Witness ==
    /\ LastChildFailed /\ nextChild = 4
    /\ restartableCloses = 3 /\ restartAttempts = 2 /\ restartTimers = 1

(***************************************************************************)
(* Properties of the single-instance lock.                                 *)
(***************************************************************************)
\* C8: an instance that did not get the lock never creates a window, never
\* runs startBackend (no validation is started) and never spawns a child.
C8_SecondInstanceInert ==
    ~gotTheLock =>
        /\ window = "none" /\ mainWindow # "win"
        /\ validations = 0 /\ nextChild = 1

(***************************************************************************)
(* Properties of the request handlers.                                     *)
(***************************************************************************)
\* C9: no request is answered with a rejected promise or lost to an
\* uncaught exception: every failure is a structured {success:false, error}.
C9_StructuredFailures ==
    \A slot \in RequestSlots : requests[slot].result \notin {"rejected", "lost"}

\* C10: every request whose handler started an external command is
\* eventually answered, because a command that does not complete is ended
\* by a timeout.
C10_EveryRequestAnswered ==
    \A slot \in RequestSlots :
        (requests[slot].result = "pending" /\ app = "ready")
            ~> (requests[slot].result # "pending" \/ app = "exited")

(***************************************************************************)
(* Properties of the shutdown paths.                                       *)
(***************************************************************************)
\* C11: the step of the uncaughtException handler leaves the log stream
\* ended, the child that was held signalled and released, the window asked
\* to close and its handle cleared, and the process exited with a non-zero
\* code.
C11_UncaughtRunsShutdown ==
    [][UncaughtException =>
          /\ shutdowns' > 0
          /\ logStream' = "null"
          /\ pythonProcess' = 0
          /\ (pythonProcess # 0 => children'[pythonProcess].kills >= 1)
          /\ mainWindow' # "win" /\ window' # "open"
          /\ app' = "exited" /\ exitCode' # <<>> /\ exitCode'[1] # 0]_vars

\* C11 witness: an uncaught exception ended the process (code 1) while the
\* log was open, a child ran and the window was open: its gracefulShutdown
\* was the only one, the child was signalled and the window asked to close.
C11_Witness ==
    /\ exitCode = <<1>> /\ shutdowns = 1 /\ logStream = "null"
    /\ window = "closing" /\ mainWindow = "null"
    /\ \E c \in ChildIds : children[c].st = "alive" /\ children[c].kills = 1

\* C16: a child that a stop has signalled stays in pythonProcess until its
\* close has been observed (or a grace period has run out): while the
\* application runs, a signalled child that is still alive is still held.
C16_ReleaseAfterExit ==
    app = "ready" =>
        \A c \in ChildIds :
            (children[c].kills > 0 /\ children[c].st = "alive") => pythonProcess = c

\* C17: the handler of app-quit sends app-quit-acknowledged, and the
\* handler of app-force-quit sends an acknowledgment of its own.
C17_QuitSignalsAcknowledged ==
    [][/\ AppQuitSignal => "app-quit-acknowledged" \in acks'
       /\ AppForceQuitSignal => acks' # acks]_vars

\* C18: when the forced path ends the process (the 100 ms timer of
\* app-force-quit), every child that was signalled and is still alive has
\* been sent a hard kill, on every platform.
C18_ForcedPathHardKills ==
    [][ForceQuitTimer =>
          \A c \in ChildIds :
              (children'[c].st = "alive" /\ children'[c].kills > 0)
                 => children'[c].sig \in {"taskkill", "SIGKILL"}]_vars

\* C19: the close handler of a child that exited with code 0 clears the
\* handle and schedules no restart, whether the window is alive or not:
\* no timer, no validation and no child is added.
C19_CleanExitNotRestarted ==
    [][(ChildClose /\ lastCode' = <<0>>) =>
          /\ pythonProcess' = 0
          /\ restartTimers' = restartTimers
          /\ restartableCloses' = restartableCloses
          /\ validations' = validations
          /\ nextChild' = nextChild]_vars

\* C19 witness: the first child exited with code 0 with the window alive
\* and no stop requested, and nothing is pending.
C19_Witness ==
    /\ lastCode = <<0>> /\ children[1].st = "closed" /\ pythonProcess = 0
    /\ WindowAlive(Cur) /\ ~stopRequested /\ app = "ready"
    /\ restartTimers = 0 /\ validations = 0 /\ nextChild = 2

\* C20: a close handled when the main window is null or destroyed, or
\* after a stop has been requested, creates no restart timer, whatever the
\* code (the null code of a signal kill included).
C20_NoRestartWithoutWindow ==
    [][(ChildClose /\ (~WindowAlive(Cur) \/ stopRequested)) =>
          /\ restartTimers' = restartTimers
          /\ restartableCloses' = restartableCloses]_vars

\* C20 witness: gracefulShutdown signalled the child (SIGTERM), the child
\* closed with the null code while the window handle was null, and no
\* restart timer was created.
C20_Witness ==
    /\ app = "ready" /\ stopRequested /\ mainWindow = "null"
    /\ lastCode = <<NullCode>> /\ restartTimers = 0 /\ restartableCloses = 0
    /\ \E c \in ChildIds : children[c].st = "closed" /\ children[c].sig = "SIGTERM"

\* the place of a step in gracefulShutdown: the log stream, the kill (sent
\* or raised), the handle, the window
StepRank(step) ==
    CASE step = "logEnd" -> 1
      [] step \in {"signal", "killRaised"} -> 2
      [] step = "handleCleared" -> 3
      [] OTHER -> 4

\* C22: the steps of a gracefulShutdown run come in one order: the log
\* stream is ended, then the child is signalled (taskkill by pid on win32,
\* SIGTERM elsewhere) and its handle cleared, then the window is closed;
\* and when the kill raises, the handle is cleared all the same and the
\* window handle is cleared after the close.
C22_ShutdownStepOrder ==
    /\ \A i, j \in 1..Len(shutdownLog) :
          i < j => StepRank(shutdownLog[i]) < StepRank(shutdownLog[j])
    /\ \A i \in 1..Len(shutdownLog) :
          shutdownLog[i] \in {"signal", "killRaised"}
             => /\ i < Len(shutdownLog) /\ shutdownLog[i + 1] = "handleCleared"
                /\ mainWindow # "win"
    /\ \A c \in ChildIds :
          children[c].sig \in {"none", "raised",
                               IF platform = "win32" THEN "taskkill" ELSE "SIGTERM"}
    /\ ~shutdownRaised

\* C22 witness: a run in which the log stream was open, the kill raised and
\* the window was alive performed all four steps.
C22_Witness ==
    /\ shutdownLog = <<"logEnd", "killRaised", "handleCleared", "windowClose">>
    /\ pythonProcess = 0 /\ mainWindow = "null" /\ window = "closing"
    /\ logStream = "null"

\* C23: once gracefulShutdown has run in the instance that holds the lock,
\* in every later state of the running application pythonProcess is null,
\* logStream is null and mainWindow is null or destroyed.
C23_ShutdownStateStays ==
    (stopRequested /\ app = "ready" /\ gotTheLock)
        => pythonProcess = 0 /\ logStream = "null" /\ ~WindowAlive(Cur)

\* the children whose close event has not been handled
Unclosed == {c \in ChildIds : children[c].st \in {"spawnfail", "errored", "alive"}}

\* C24: the validations in flight, the children whose close has not been
\* handled and the pending restart timers number at most one; a close or
\* error handler that clears a handle clears the handle of its own child;
\* and a restart timer that fires finds pythonProcess null and starts.
C24_OnePipeline ==
    /\ [](validations + Cardinality(Unclosed) + restartTimers <= 1)
    /\ [][(ChildClose \/ ChildError) =>
             /\ pythonProcess' = 0
             /\ pythonProcess # 0 =>
                   children'[pythonProcess].st # children[pythonProcess].st]_vars
    /\ [][RestartTimer =>
             pythonProcess = 0 /\ restartAttempts' = restartAttempts + 1]_vars

\* C24 witness: the first child has closed, its restart timer has fired
\* with pythonProcess null, and the validation it started is the one
\* pipeline in progress.
C24_Witness ==
    /\ app = "ready" /\ children[1].st = "closed" /\ nextChild = 2
    /\ restartAttempts = 1 /\ restartTimers = 0 /\ validations = 1
    /\ pythonProcess = 0 /\ Unclosed = {}

(***************************************************************************)
(* Properties of the system volume.                                        *)
(***************************************************************************)
\* C12: the number set-system-volume puts in the platform command is on
\* the platform's scale: a level above 100 is applied as 100 (65535 on
\* win32) and a level below 0 as 0.
C12_VolumeClamped ==
    volCmd.set =>
        volCmd.arg = volumeArg(platform,
                        IF volCmd.level > 100 THEN 100
                        ELSE IF volCmd.level < 0 THEN 0 ELSE volCmd.level)

\* C13: a level v in 0..100 that set-system-volume applied is the volume
\* the next get-system-volume returns, on every supported platform, when
\* the command prints the format the parser expects; on win32 this is
\* round(round(v / 100 * 65535) / 65535 * 100) = v.
C13_VolumeRoundTrip ==
    (volOut.got /\ volOut.shape = "expected"
        /\ volCmd.set /\ volCmd.level \in 0..100)
      => volOut.success /\ ~volOut.nan /\ volOut.volume = volCmd.level

\* C13 witness: on win32, 37 was set (24248 of 65535) and read back as 37.
C13_Witness ==
    /\ platform = "win32" /\ volCmd.set /\ volCmd.level = 37
    /\ mixer.level = 24248
    /\ volOut.got /\ volOut.shape = "expected" /\ volOut.volume = 37

\* C14: when the command succeeds with output that is not in the expected
\* format, get-system-volume answers with a failure, never with a success
\* that carries a default volume.
C14_ParseFailsClosed ==
    (volOut.got /\ volOut.shape = "other") => ~volOut.success

\* C15: a successful get-system-volume on well-formed output carries an
\* integer volume in 0..100 and an isMuted flag equal to the mixer's mute
\* state, whatever level and mute state the mixer has.
C15_VolumeNormalized ==
    (volOut.got /\ volOut.success /\ volOut.shape = "expected" /\ volOut.muteRead)
      => /\ ~volOut.nan
         /\ volOut.volume \in 0..100
         /\ volOut.isMuted = mixer.muted
=============================================================================
